---- MODULE Spec2Model ----
(***************************************************************************)
(* Bulk transfer pipeline of qizx-python: the dump controller              *)
(* (tools/qz_dump.py, Shell.main), the restore controller                  *)
(* (tools/qz_restore.py, Shell.main), the worker processes (_downloader,   *)
(* _uploader) and the tar writer process (_tar_writer).                    *)
(*                                                                         *)
(* The module qizx.bulk (Dump, Restore, Tar, TarQueue, Directory) is not   *)
(* part of the sources; what a worker does inside bulk.Dump.dump_queue is  *)
(* modelled from the design document (section 4.2).                        *)
(*                                                                         *)
(* A library is represented by one transfer job, numbered by the library's *)
(* position in the list of libraries.  None, the shutdown sentinel, is 0.  *)
(***************************************************************************)
EXTENDS Integers, Sequences, FiniteSets, TLC

\* Bounds of the model.
MaxJobs == 3
MaxLibs == 2
MaxFaults == 2
MaxClock == 4
MaxTimeout == 2
MaxPoll == 2
MaxBatch == 2
MaxRequests == 2
MaxProps == 3
MaxClients == 3

VARIABLES
    direction,   \* "dump" (qz_dump.py) or "restore" (qz_restore.py)
    jobs,        \* config.jobs
    tar,         \* config.tar is not None
    nlibs,       \* len(libs)
    cpc,         \* position of Shell.main
    exc,         \* the exception main ended with, "none" when it returned
    exitcode,    \* main's local variable exitcode
    a_kind,      \* the archiver factory bound to the local variable a
    built,       \* the controller's bulk.Dump / bulk.Restore object exists
    dfail,       \* a transfer run by the controller itself has failed
    started,     \* len(procs): workers Process.start()ed so far
    lib,         \* index of the next library to enumerate
    sent,        \* number of None put on the job queue
    tsent,       \* number of None put on the tar queue
    idx,         \* index of the running join loop
    joined,      \* the worker processes a join() has returned for
    tjoined,     \* tar_proc.join() has returned
    interrupts,  \* KeyboardInterrupts delivered to the controller
    faults,      \* KeyboardInterrupts and failures met by the children
    closes,      \* calls of d.archiver.close() / r.archiver.close()
    q,           \* the job queue
    tq,          \* the tar queue
    wpc,         \* position of each worker process
    wjob,        \* the job a worker holds
    wfail,       \* a worker has seen a failed transfer
    wexit,       \* Process.exitcode of each worker
    wcause,      \* what ended each worker
    warch,       \* the archiver factory each worker was started with
    tpc,         \* position of the tar writer process
    tjob,        \* the write request the tar writer holds
    texit,       \* tar_proc.exitcode
    tsentinel,   \* the tar writer dequeued None
    tgot,        \* the write requests the tar writer dequeued, in order
    tarch,       \* the archiver factory the tar writer was started with
    tar_state,   \* the tar stream: "none", "open", "closed"
    stream,      \* the entries written to the tar stream, in order
    files,       \* the entries written to the directory archive
    taken,       \* per job: number of times it was dequeued (or taken up)
    done,        \* per job: number of times its handling completed
    wait_pc,     \* position of Client.wait
    timeout,     \* its argument timeout: None, or a number of seconds
    poll,        \* its argument poll, in seconds
    clock,       \* time.time(), in seconds
    start,       \* its local variable start
    complete,    \* its local variable complete, in units of 1 / Scale
    polls,       \* calls of self.progress(id) that have returned
    result,      \* what Client.wait returned: "none", "True", "False",
                 \* or "raised" when progress raised
    storables,   \* Client._storables, the document batch
    puts,        \* the put requests issued, each the storables it carried
    last,        \* the last call of batch / flush and how it ended
    props,       \* Client._props, the property batch: path -> properties
    sentprops,   \* the properties a flushprops request has carried
    nprops,      \* number of properties batched so far
    plast,       \* the last call of batchprop / flushprops and how it ended
    xpc,         \* per client: position of the CLI handler backup
    exclusive,   \* per client: args.exclusive
    running,     \* the server's running backup tasks, by the client's number
    raced        \* the clients whose backup request met a running backup

\* Client.wait (qizx/qizx.py) is no part of the pipeline: the pipeline leaves
\* its variables alone, and Client.wait those of the pipeline.
kvars == << wait_pc, timeout, poll, clock, start, complete, polls, result >>

\* The document batch, the property batch and the CLI backup command are
\* no part of the pipeline either.
bvars == << storables, puts, last >>
fvars == << props, sentprops, nprops, plast >>
xvars == << xpc, exclusive, running, raced >>

pvars == << direction, jobs, tar, nlibs, cpc, exc, exitcode, a_kind, built,
            dfail, wcause, started, lib, sent, tsent, idx, joined, tjoined,
            interrupts, faults, closes, q, tq, wpc, wjob, wfail, wexit,
            warch, tpc, tjob, texit, tsentinel, tgot, tarch, tar_state,
            stream, files, taken, done >>

vars == << direction, jobs, tar, nlibs, cpc, exc, exitcode, a_kind, built,
           dfail, wcause, started, lib, sent, tsent, idx, joined, tjoined, interrupts,
           faults, closes, q, tq, wpc, wjob, wfail, wexit, warch, tpc, tjob,
           texit, tsentinel, tgot, tarch, tar_state, stream, files, taken,
           done, kvars, bvars, fvars, xvars >>

cvars == << direction, jobs, tar, nlibs, kvars, bvars, fvars, xvars >>
ivars == << interrupts, faults >>
wvars == << wpc, wjob, wfail, wexit, wcause, warch >>
tvars == << tpc, tjob, texit, tsentinel, tgot, tarch >>
avars == << tar_state, stream, files >>
hvars == << taken, done >>

Sentinel == 0
JobsRange == -1 .. MaxJobs
Workers == 1 .. (MaxJobs - 1)
JobIds == 1 .. MaxLibs

\* Statuses a failing child ends with.
FailStatuses == {1, 2, 100}

----------------------------------------------------------------------------
\* range(config.jobs - 1)
WorkerCount_Jobs(j) == IF j > 0 THEN j ELSE 0

WorkerCount(j) == IF j - 1 > 0 THEN j - 1 ELSE 0

\* The archiver factory chosen from the command line.
ConfigArchiver(t) == IF t THEN "Tar" ELSE "Directory"

\* The if / elif chain run after a join: the second branch formats a string
\* that has no conversion with an argument, which raises TypeError.
JoinRaises(ec, pe) == ~(ec = 0 /\ pe = 1) /\ ec < 2 /\ pe = 2

JoinExit(ec, pe) ==
    IF ec = 0 /\ pe = 1 THEN 1
    ELSE IF ec < 2 /\ pe = 2 THEN 2
    ELSE IF ec < 100 /\ pe = 100 THEN 100
    ELSE ec

----------------------------------------------------------------------------
\* The argument timeout of Client.wait: None, or a number of seconds.
None == [none |-> TRUE, secs |-> 0]
Seconds(t) == [none |-> FALSE, secs |-> t]

\* No call of Client.wait.
WaitIdle ==
    /\ wait_pc = "idle"
    /\ timeout = None
    /\ poll = 1
    /\ clock = 0
    /\ start = 0
    /\ complete = 0
    /\ polls = 0
    /\ result = "none"

\* A new Client: both batches empty, nothing requested.
BatchIdle ==
    /\ storables = << >>
    /\ puts = << >>
    /\ last = [op |-> "none", out |-> "none"]

PropIdle ==
    /\ props = << >>
    /\ sentprops = {}
    /\ nprops = 0
    /\ plast = [op |-> "none", out |-> "none"]

\* No CLI backup command.
BackupIdle ==
    /\ xpc = [c \in 1 .. MaxClients |-> "idle"]
    /\ exclusive = [c \in 1 .. MaxClients |-> FALSE]
    /\ running = {}
    /\ raced = {}

\* Shell.main before its first statement.
Unstarted ==
    /\ cpc = "begin"
    /\ exc = "none"
    /\ exitcode = 0
    /\ a_kind = ConfigArchiver(tar)
    /\ built = FALSE
    /\ dfail = FALSE
    /\ started = 0
    /\ lib = 1
    /\ sent = 0
    /\ tsent = 0
    /\ idx = 0
    /\ joined = {}
    /\ tjoined = FALSE
    /\ interrupts = 0
    /\ faults = 0
    /\ closes = 0
    /\ q = << >>
    /\ tq = << >>
    /\ wpc = [i \in Workers |-> "unstarted"]
    /\ wjob = [i \in Workers |-> 0]
    /\ wfail = [i \in Workers |-> FALSE]
    /\ wexit = [i \in Workers |-> 0]
    /\ wcause = [i \in Workers |-> "none"]
    /\ warch = [i \in Workers |-> "none"]
    /\ tpc = "unstarted"
    /\ tjob = 0
    /\ texit = 0
    /\ tsentinel = FALSE
    /\ tgot = << >>
    /\ tarch = "none"
    /\ tar_state = "none"
    /\ stream = << >>
    /\ files = {}
    /\ taken = [j \in JobIds |-> 0]
    /\ done = [j \in JobIds |-> 0]

Init ==
    /\ direction \in {"dump", "restore"}
    /\ jobs \in JobsRange
    /\ tar \in BOOLEAN
    /\ nlibs \in 1 .. MaxLibs
    /\ Unstarted
    /\ WaitIdle
    /\ BatchIdle
    /\ PropIdle
    /\ BackupIdle

----------------------------------------------------------------------------
\* The controller, Shell.main.

\* The same without the rebinding of a.
CtlOpenQueues_NoRebind ==
    /\ cpc = "begin"
    /\ jobs # 1
    /\ cpc' = "spawn"
    /\ IF direction = "dump" /\ tar
       THEN /\ tpc' = "init"
            /\ tarch' = a_kind
            /\ a_kind' = a_kind
       ELSE UNCHANGED << tpc, tarch, a_kind >>
    /\ UNCHANGED << cvars, built, dfail, exc, exitcode, started, lib, sent, tsent,
                    idx, joined, tjoined, ivars, closes, q, tq, wvars, tjob,
                    texit, tsentinel, tgot, avars, hvars >>

\* q = Queue(); in a tar dump the tar writer process is started with the
\* factory of bulk.Tar and a is rebound to the factory of bulk.TarQueue.
CtlOpenQueues ==
    /\ cpc = "begin"
    /\ jobs # 1
    /\ cpc' = "spawn"
    /\ IF direction = "dump" /\ tar
       THEN /\ tpc' = "init"
            /\ tarch' = a_kind
            /\ a_kind' = "TarQueue"
       ELSE UNCHANGED << tpc, tarch, a_kind >>
    /\ UNCHANGED << cvars, built, dfail,
                    exc, exitcode, started, lib, sent, tsent, idx,
                    joined, tjoined, ivars, closes, q, tq, wvars, tjob,
                    texit, tsentinel, tgot, avars, hvars >>

\* One round of the loop over range(config.jobs - 1): a worker is started
\* with the factory a is bound to at that moment.
CtlStartWorker ==
    /\ cpc = "spawn"
    /\ started < WorkerCount(jobs)
    /\ started' = started + 1
    /\ wpc' = [wpc EXCEPT ![started + 1] = "init"]
    /\ warch' = [warch EXCEPT ![started + 1] = a_kind]
    /\ UNCHANGED << cvars, built, dfail,
                    cpc, exc, exitcode, a_kind, lib, sent, tsent, idx,
                    joined, tjoined, ivars, closes, q, tq, wjob, wfail,
                    wexit, wcause, tvars, avars, hvars >>

\* The same placed inside the loop that starts the workers: the controller
\* goes on to the libraries while workers are still to be started.
CtlConstruct_Early ==
    /\ \/ cpc = "begin" /\ jobs = 1
       \/ cpc = "spawn"
    /\ \E ok \in BOOLEAN :
        IF ok
        THEN /\ cpc' = "enum"
             /\ exc' = exc
             /\ built' = TRUE
             /\ tar_state' = IF a_kind = "Tar" THEN "open" ELSE tar_state
        ELSE /\ cpc' = "ended"
             /\ exc' = "ClientFailure"
             /\ built' = built
             /\ tar_state' = tar_state
    /\ UNCHANGED << cvars, dfail, exitcode, a_kind, started, lib, sent,
                    tsent, idx, joined, tjoined, ivars, closes, q, tq, wvars,
                    tvars, stream, files, hvars >>

\* d = bulk.Dump(...) / bulk.Restore(...): the controller's own client and
\* archiver.  A failure leaves main through the exception.
CtlConstruct ==
    /\ \/ cpc = "begin" /\ jobs = 1
       \/ cpc = "spawn" /\ started = WorkerCount(jobs)
    /\ \E ok \in BOOLEAN :
        IF ok
        THEN /\ cpc' = "enum"
             /\ exc' = exc
             /\ built' = TRUE
             /\ tar_state' = IF a_kind = "Tar" THEN "open" ELSE tar_state
        ELSE /\ cpc' = "ended"
             /\ exc' = "ClientFailure"
             /\ built' = built
             /\ tar_state' = tar_state
    /\ UNCHANGED << cvars, dfail, exitcode, a_kind, started, lib, sent,
                    tsent, idx, joined, tjoined, ivars, closes, q, tq, wvars,
                    tvars, stream, files, hvars >>

\* The same with the two branches exchanged: r unbound for jobs == 1.
CtlRestoreUnbound_Single ==
    /\ cpc = "enum"
    /\ direction = "restore"
    /\ jobs = 1
    /\ cpc' = "ended"
    /\ exc' = "NameError"
    /\ UNCHANGED << cvars, built, dfail,
                    exitcode, a_kind, started, lib, sent, tsent, idx,
                    joined, tjoined, ivars, closes, q, tq, wvars, tvars,
                    avars, hvars >>

\* qz_restore.py binds d, not r, in the branch of jobs != 1: r.restore_lib
\* raises NameError (UnboundLocalError).
CtlRestoreUnbound ==
    /\ cpc = "enum"
    /\ direction = "restore"
    /\ jobs # 1
    /\ cpc' = "ended"
    /\ exc' = "NameError"
    /\ UNCHANGED << cvars, built, dfail,
                    exitcode, a_kind, started, lib, sent, tsent, idx,
                    joined, tjoined, ivars, closes, q, tq, wvars, tvars,
                    avars, hvars >>

\* d.dump_lib(lib) / r.restore_lib(...) for one library: with a queue the job
\* is put on the queue, without one it is transferred in the controller.
CtlEnumLib ==
    /\ cpc = "enum"
    /\ ~(direction = "restore" /\ jobs # 1)
    /\ lib <= nlibs
    /\ \E res \in {"ok", "failed", "enumfail"} :
        IF res = "enumfail"
        THEN /\ cpc' = "ended"
             /\ exc' = "EnumerationFailure"
             /\ UNCHANGED << lib, q, dfail, avars, hvars >>
        ELSE /\ lib' = lib + 1
             /\ UNCHANGED << cpc, exc, tar_state >>
             /\ IF jobs # 1
                THEN /\ res = "ok"
                     /\ q' = Append(q, lib)
                     /\ UNCHANGED << dfail, stream, files, hvars >>
                ELSE /\ q' = q
                     /\ dfail' = (dfail \/ res = "failed")
                     /\ taken' = [taken EXCEPT ![lib] = @ + 1]
                     /\ done' = [done EXCEPT ![lib] = @ + 1]
                     /\ stream' = IF res = "ok" /\ direction = "dump"
                                     /\ a_kind = "Tar"
                                  THEN Append(stream, lib) ELSE stream
                     /\ files' = IF res = "ok" /\ direction = "dump"
                                    /\ a_kind = "Directory"
                                 THEN files \cup {lib} ELSE files
    /\ UNCHANGED << cvars, built,
                    exitcode, a_kind, started, sent, tsent, idx,
                    joined, tjoined, ivars, closes, tq, wvars, tvars >>

\* The same with the drain entered for every config.jobs >= 1.
CtlEnumDone_Drain ==
    /\ cpc = "enum"
    /\ ~(direction = "restore" /\ jobs # 1)
    /\ lib > nlibs
    /\ cpc' = IF jobs >= 1 THEN "sentinels" ELSE "close"
    /\ idx' = 0
    /\ UNCHANGED << cvars, built, dfail,
                    exc, exitcode, a_kind, started, lib, sent, tsent,
                    joined, tjoined, ivars, closes, q, tq, wvars, tvars,
                    avars, hvars >>

\* The loops over the libraries are over: if config.jobs > 1.
CtlEnumDone ==
    /\ cpc = "enum"
    /\ ~(direction = "restore" /\ jobs # 1)
    /\ lib > nlibs
    /\ cpc' = IF jobs > 1 THEN "sentinels" ELSE "close"
    /\ idx' = 0
    /\ UNCHANGED << cvars, built, dfail,
                    exc, exitcode, a_kind, started, lib, sent, tsent,
                    joined, tjoined, ivars, closes, q, tq, wvars, tvars,
                    avars, hvars >>

\* The same with the None for the tar writer put together with the last
\* None for the workers, before the joins.
CtlPutSentinel_Tar ==
    /\ cpc = "sentinels"
    /\ idx < started
    /\ q' = Append(q, Sentinel)
    /\ sent' = sent + 1
    /\ IF idx + 1 = started
       THEN /\ cpc' = "join" /\ idx' = 0
            /\ tq' = IF direction = "dump" /\ tar
                      THEN Append(tq, Sentinel) ELSE tq
            /\ tsent' = IF direction = "dump" /\ tar THEN tsent + 1 ELSE tsent
       ELSE /\ cpc' = cpc /\ idx' = idx + 1
            /\ UNCHANGED << tq, tsent >>
    /\ UNCHANGED << cvars, built, dfail,
                    exc, exitcode, a_kind, started, lib,
                    joined, tjoined, ivars, closes, wvars, tvars,
                    avars, hvars >>

\* The same with the loop one round short: range(len(procs) - 1).
CtlPutSentinel_Short ==
    /\ cpc = "sentinels"
    /\ idx < started
    /\ IF idx + 1 = started
       THEN /\ cpc' = "join" /\ idx' = 0
            /\ UNCHANGED << q, sent >>
       ELSE /\ cpc' = cpc /\ idx' = idx + 1
            /\ q' = Append(q, Sentinel)
            /\ sent' = sent + 1
    /\ UNCHANGED << cvars, built, dfail,
                    exc, exitcode, a_kind, started, lib, tsent,
                    joined, tjoined, ivars, closes, tq, wvars, tvars,
                    avars, hvars >>

\* for i in range(len(procs)): q.put(None)
CtlPutSentinel ==
    /\ cpc = "sentinels"
    /\ idx < started
    /\ q' = Append(q, Sentinel)
    /\ sent' = sent + 1
    /\ IF idx + 1 = started
       THEN cpc' = "join" /\ idx' = 0
       ELSE cpc' = cpc /\ idx' = idx + 1
    /\ UNCHANGED << cvars, built, dfail,
                    exc, exitcode, a_kind, started, lib, tsent,
                    joined, tjoined, ivars, closes, tq, wvars, tvars,
                    avars, hvars >>

\* The same with a fail-fast reaction to a status 2: the controller
\* terminates the workers that are still running.
CtlJoin_Terminate ==
    /\ cpc = "join"
    /\ idx < started
    /\ wpc[idx + 1] = "exited"
    /\ joined' = joined \cup {idx + 1}
    /\ IF JoinRaises(exitcode, wexit[idx + 1])
       THEN /\ cpc' = "ended"
            /\ exc' = "TypeError"
            /\ wpc' = [i \in Workers |->
                          IF wpc[i] = "unstarted" THEN wpc[i] ELSE "exited"]
            /\ UNCHANGED << exitcode, idx >>
       ELSE /\ exitcode' = JoinExit(exitcode, wexit[idx + 1])
            /\ exc' = exc
            /\ wpc' = wpc
            /\ IF idx + 1 = started
               THEN cpc' = "qclose" /\ idx' = 0
               ELSE cpc' = cpc /\ idx' = idx + 1
    /\ UNCHANGED << cvars, built, dfail,
                    a_kind, started, lib, sent, tsent, tjoined,
                    ivars, closes, q, tq, wjob, wfail, wexit, wcause, warch,
                    tvars, avars, hvars >>

\* for pr in procs: pr.join(), then the if / elif chain on pr.exitcode.
CtlJoin ==
    /\ cpc = "join"
    /\ idx < started
    /\ wpc[idx + 1] = "exited"
    /\ joined' = joined \cup {idx + 1}
    /\ IF JoinRaises(exitcode, wexit[idx + 1])
       THEN /\ cpc' = "ended"
            /\ exc' = "TypeError"
            /\ UNCHANGED << exitcode, idx >>
       ELSE /\ exitcode' = JoinExit(exitcode, wexit[idx + 1])
            /\ exc' = exc
            /\ IF idx + 1 = started
               THEN cpc' = "qclose" /\ idx' = 0
               ELSE cpc' = cpc /\ idx' = idx + 1
    /\ UNCHANGED << cvars, built, dfail,
                    a_kind, started, lib, sent, tsent, tjoined,
                    ivars, closes, q, tq, wvars, tvars, avars, hvars >>

\* KeyboardInterrupt inside the first try block, without the joins of the
\* except clause.
CtlInterruptDrain_NoJoin ==
    /\ cpc \in {"sentinels", "join"}
    /\ interrupts + faults < MaxFaults
    /\ interrupts' = interrupts + 1
    /\ faults' = faults
    /\ exitcode' = -1
    /\ cpc' = "qclose"
    /\ idx' = 0
    /\ UNCHANGED << cvars, built, dfail,
                    exc, a_kind, started, lib, sent, tsent, joined,
                    tjoined, closes, q, tq, wvars, tvars, avars, hvars >>

\* KeyboardInterrupt inside the first try block (the sentinel loop or a
\* join): exitcode = -1, then the except clause joins every worker.
CtlInterruptDrain ==
    /\ cpc \in {"sentinels", "join"}
    /\ interrupts + faults < MaxFaults
    /\ interrupts' = interrupts + 1
    /\ faults' = faults
    /\ exitcode' = -1
    /\ cpc' = "hjoin"
    /\ idx' = 0
    /\ UNCHANGED << cvars, built, dfail,
                    exc, a_kind, started, lib, sent, tsent, joined,
                    tjoined, closes, q, tq, wvars, tvars, avars, hvars >>

\* for pr in procs: pr.join() of the except clause.
CtlHandlerJoin ==
    /\ cpc = "hjoin"
    /\ idx < started
    /\ wpc[idx + 1] = "exited"
    /\ joined' = joined \cup {idx + 1}
    /\ IF idx + 1 = started
       THEN cpc' = "qclose" /\ idx' = 0
       ELSE cpc' = cpc /\ idx' = idx + 1
    /\ UNCHANGED << cvars, built, dfail,
                    exc, exitcode, a_kind, started, lib, sent, tsent,
                    tjoined, ivars, closes, q, tq, wvars, tvars, avars,
                    hvars >>

\* q.close()
CtlQueueClose ==
    /\ cpc = "qclose"
    /\ cpc' = IF direction = "dump" THEN "tartry" ELSE "close"
    /\ UNCHANGED << cvars, built, dfail,
                    exc, exitcode, a_kind, started, lib, sent, tsent,
                    idx, joined, tjoined, ivars, closes, q, tq, wvars,
                    tvars, avars, hvars >>

\* if config.tar is not None: tar_queue.put(None)
CtlTarPut ==
    /\ cpc = "tartry"
    /\ IF tar
       THEN /\ tq' = Append(tq, Sentinel)
            /\ tsent' = tsent + 1
            /\ cpc' = "tarjoin"
       ELSE /\ cpc' = "close"
            /\ UNCHANGED << tq, tsent >>
    /\ UNCHANGED << cvars, built, dfail,
                    exc, exitcode, a_kind, started, lib, sent, idx,
                    joined, tjoined, ivars, closes, q, wvars, tvars,
                    avars, hvars >>

\* tar_proc.join(), then the if / elif chain on tar_proc.exitcode.
CtlTarJoin ==
    /\ cpc = "tarjoin"
    /\ tpc = "exited"
    /\ tjoined' = TRUE
    /\ IF JoinRaises(exitcode, texit)
       THEN /\ cpc' = "ended"
            /\ exc' = "TypeError"
            /\ exitcode' = exitcode
       ELSE /\ exitcode' = JoinExit(exitcode, texit)
            /\ exc' = exc
            /\ cpc' = "close"
    /\ UNCHANGED << cvars, built, dfail,
                    a_kind, started, lib, sent, tsent, idx, joined,
                    ivars, closes, q, tq, wvars, tvars, avars, hvars >>

\* KeyboardInterrupt inside the second try block: exitcode = -1, then
\* tar_proc.join(); tar_proc is unbound when no tar file was asked for.
CtlInterruptTar ==
    /\ cpc \in {"tartry", "tarjoin"}
    /\ interrupts + faults < MaxFaults
    /\ interrupts' = interrupts + 1
    /\ faults' = faults
    /\ exitcode' = -1
    /\ IF tar
       THEN cpc' = "htarjoin" /\ exc' = exc
       ELSE cpc' = "ended" /\ exc' = "NameError"
    /\ UNCHANGED << cvars, built, dfail,
                    a_kind, started, lib, sent, tsent, idx, joined,
                    tjoined, closes, q, tq, wvars, tvars, avars, hvars >>

\* tar_proc.join() of the second except clause.
CtlHandlerTarJoin ==
    /\ cpc = "htarjoin"
    /\ tpc = "exited"
    /\ tjoined' = TRUE
    /\ cpc' = "close"
    /\ UNCHANGED << cvars, built, dfail,
                    exc, exitcode, a_kind, started, lib, sent, tsent,
                    idx, joined, ivars, closes, q, tq, wvars, tvars,
                    avars, hvars >>

\* d.archiver.close() / r.archiver.close(); return exitcode
CtlClose ==
    /\ cpc = "close"
    /\ closes' = closes + 1
    /\ tar_state' = IF a_kind = "Tar" /\ tar_state = "open"
                    THEN "closed" ELSE tar_state
    /\ cpc' = "ended"
    /\ UNCHANGED << cvars, built, dfail,
                    exc, exitcode, a_kind, started, lib, sent, tsent,
                    idx, joined, tjoined, ivars, q, tq, wvars, tvars,
                    stream, files, hvars >>

\* KeyboardInterrupt anywhere outside the two try blocks, the except clauses
\* included: it leaves main.
CtlInterrupt ==
    /\ cpc \in {"begin", "spawn", "enum", "hjoin", "qclose", "htarjoin",
                "close"}
    /\ interrupts + faults < MaxFaults
    /\ interrupts' = interrupts + 1
    /\ faults' = faults
    /\ cpc' = "ended"
    /\ exc' = "KeyboardInterrupt"
    /\ UNCHANGED << cvars, built, dfail,
                    exitcode, a_kind, started, lib, sent, tsent, idx,
                    joined, tjoined, closes, q, tq, wvars, tvars, avars,
                    hvars >>

----------------------------------------------------------------------------
\* The worker processes, _downloader / _uploader.

\* The outcomes of a step that may fail: the failures among S are left out
\* once the run has met MaxFaults interrupts and failures.
Outcomes(S) == IF interrupts + faults < MaxFaults THEN S ELSE {"ok"}

StatusOutcomes ==
    IF interrupts + faults < MaxFaults THEN {0} \cup FailStatuses ELSE {0}

\* bulk.Dump(url, archiver, queue) / bulk.Restore(...) in the worker: a
\* worker that cannot create its client exits with status 100.
WorkerConstruct(i) ==
    /\ wpc[i] = "init"
    /\ \E res \in Outcomes({"ok", "noclient"}) :
        IF res = "ok"
        THEN /\ wpc' = [wpc EXCEPT ![i] = "get"]
             /\ UNCHANGED << wexit, wcause, faults >>
        ELSE /\ wpc' = [wpc EXCEPT ![i] = "exited"]
             /\ wexit' = [wexit EXCEPT ![i] = 100]
             /\ wcause' = [wcause EXCEPT ![i] = "noclient"]
             /\ faults' = faults + 1
    /\ UNCHANGED << cvars, built, dfail,
                    cpc, exc, exitcode, a_kind, started, lib, sent,
                    tsent, idx, joined, tjoined, interrupts, closes,
                    q, tq, wjob, wfail, warch, tvars, avars, hvars >>

\* dump_queue / restore_queue: the blocking get.  On None the worker exits,
\* with status 1 when a transfer of its own failed.
WorkerGet(i) ==
    /\ wpc[i] = "get"
    /\ q # << >>
    /\ q' = Tail(q)
    /\ IF Head(q) = Sentinel
       THEN /\ wpc' = [wpc EXCEPT ![i] = "exited"]
            /\ wexit' = [wexit EXCEPT ![i] = IF wfail[i] THEN 1 ELSE 0]
            /\ wfail' = [wfail EXCEPT ![i] = FALSE]
            /\ wcause' = [wcause EXCEPT ![i] = "sentinel"]
            /\ UNCHANGED << wjob, taken >>
       ELSE /\ wpc' = [wpc EXCEPT ![i] = "fetch"]
            /\ wjob' = [wjob EXCEPT ![i] = Head(q)]
            /\ taken' = [taken EXCEPT ![Head(q)] = @ + 1]
            /\ UNCHANGED << wexit, wfail, wcause >>
    /\ UNCHANGED << cvars, built, dfail,
                    cpc, exc, exitcode, a_kind, started, lib, sent,
                    tsent, idx, joined, tjoined, ivars, closes, tq,
                    warch, tvars, avars, done >>

\* tar_queue = Manager().Queue(): no maxsize is given, and the default, 0,
\* stands for a queue without limit.
Maxsize == 0

\* The same for a queue made with a limit of one item.
Full_One(s) == Len(s) >= 1

\* Queue.full(): a put blocks while the queue is full.
Full(s) == Maxsize > 0 /\ Len(s) >= Maxsize

\* bulk.TarQueue.write(name, payload): a put of the request on the tar
\* queue.
TarQueuePut(j) ==
    /\ ~Full(tq)
    /\ tq' = Append(tq, j)

\* The archive half of a transfer, archiver.write(name, payload), for the
\* job j of worker i: a write request on the tar queue (TarQueue), an entry
\* of the tar stream (Tar) or a file (Directory).
ArchiveWrite(i, j) ==
    /\ done' = [done EXCEPT ![j] = @ + 1]
    /\ wjob' = [wjob EXCEPT ![i] = 0]
    /\ IF warch[i] = "TarQueue" THEN TarQueuePut(j) ELSE tq' = tq
    /\ stream' = IF warch[i] = "Tar" THEN Append(stream, j) ELSE stream
    /\ files' = IF warch[i] = "Directory" THEN files \cup {j} ELSE files

\* The transfer of the job the worker holds.  The remote half succeeds,
\* fails for this job alone (logged, counted, the loop goes on) or ends the
\* worker with status 2.  The archive half follows at once when it is a queue
\* put or a file of its own; a write on a tar stream the worker holds itself
\* is entered here and left in a later step.
WorkerTransfer(i) ==
    /\ wpc[i] \in {"fetch", "write"}
    /\ IF wpc[i] = "write"
       THEN /\ wpc' = [wpc EXCEPT ![i] = "get"]
            /\ ArchiveWrite(i, wjob[i])
            /\ UNCHANGED << wfail, wexit, wcause, faults >>
       ELSE \E res \in Outcomes({"ok", "failed", "fatal"}) :
            CASE res = "ok" ->
                   IF warch[i] = "Tar"
                   THEN /\ wpc' = [wpc EXCEPT ![i] = "write"]
                        /\ UNCHANGED << wjob, wfail, wexit, wcause, done,
                                        tq, stream, files, faults >>
                   ELSE /\ wpc' = [wpc EXCEPT ![i] = "get"]
                        /\ ArchiveWrite(i, wjob[i])
                        /\ UNCHANGED << wfail, wexit, wcause, faults >>
              [] res = "failed" ->
                   /\ wpc' = [wpc EXCEPT ![i] = "get"]
                   /\ wfail' = [wfail EXCEPT ![i] = TRUE]
                   /\ done' = [done EXCEPT ![wjob[i]] = @ + 1]
                   /\ wjob' = [wjob EXCEPT ![i] = 0]
                   /\ faults' = faults + 1
                   /\ UNCHANGED << wexit, wcause, tq, stream, files >>
              [] res = "fatal" ->
                   /\ wpc' = [wpc EXCEPT ![i] = "exited"]
                   /\ wexit' = [wexit EXCEPT ![i] = 2]
                   /\ wcause' = [wcause EXCEPT ![i] = "fatal"]
                   /\ wjob' = [wjob EXCEPT ![i] = 0]
                   /\ wfail' = [wfail EXCEPT ![i] = FALSE]
                   /\ faults' = faults + 1
                   /\ UNCHANGED << done, tq, stream, files >>
    /\ UNCHANGED << cvars, built, dfail,
                    cpc, exc, exitcode, a_kind, started, lib, sent,
                    tsent, idx, joined, tjoined, interrupts, closes,
                    q, warch, tvars, tar_state, taken >>

\* The same without the except clause: the KeyboardInterrupt leaves the
\* process target, and the process ends with a traceback and status 1.
WorkerInterrupt_Uncaught(i) ==
    /\ wpc[i] \in {"init", "get", "fetch", "write"}
    /\ interrupts + faults < MaxFaults
    /\ faults' = faults + 1
    /\ interrupts' = interrupts
    /\ wpc' = [wpc EXCEPT ![i] = "exited"]
    /\ wexit' = [wexit EXCEPT ![i] = 1]
    /\ wcause' = [wcause EXCEPT ![i] = "interrupt"]
    /\ wjob' = [wjob EXCEPT ![i] = 0]
    /\ wfail' = [wfail EXCEPT ![i] = FALSE]
    /\ UNCHANGED << cvars, built, dfail,
                    cpc, exc, exitcode, a_kind, started, lib, sent,
                    tsent, idx, joined, tjoined, closes, q, tq,
                    warch, tvars, avars, hvars >>

\* except KeyboardInterrupt: pass
WorkerInterrupt(i) ==
    /\ wpc[i] \in {"init", "get", "fetch", "write"}
    /\ interrupts + faults < MaxFaults
    /\ faults' = faults + 1
    /\ interrupts' = interrupts
    /\ wpc' = [wpc EXCEPT ![i] = "exited"]
    /\ wexit' = [wexit EXCEPT ![i] = 0]
    /\ wcause' = [wcause EXCEPT ![i] = "interrupt"]
    /\ wjob' = [wjob EXCEPT ![i] = 0]
    /\ wfail' = [wfail EXCEPT ![i] = FALSE]
    /\ UNCHANGED << cvars, built, dfail,
                    cpc, exc, exitcode, a_kind, started, lib, sent,
                    tsent, idx, joined, tjoined, closes, q, tq,
                    warch, tvars, avars, hvars >>

----------------------------------------------------------------------------
\* The tar writer process, _tar_writer.

\* a = archiver()
TarOpen ==
    /\ tpc = "init"
    /\ tpc' = "get"
    /\ tar_state' = "open"
    /\ UNCHANGED << cvars, built, dfail,
                    cpc, exc, exitcode, a_kind, started, lib, sent,
                    tsent, idx, joined, tjoined, ivars, closes, q, tq,
                    wvars, tjob, texit, tsentinel, tgot, tarch, stream,
                    files, hvars >>

\* job = queue.get(); if job is None: return
TarGet ==
    /\ tpc = "get"
    /\ tq # << >>
    /\ tq' = Tail(tq)
    /\ IF Head(tq) = Sentinel
       THEN /\ tpc' = "exited"
            /\ texit' = 0
            /\ tsentinel' = TRUE
            /\ tjob' = tjob
            /\ tgot' = tgot
       ELSE /\ tpc' = "write"
            /\ tjob' = Head(tq)
            /\ tgot' = Append(tgot, Head(tq))
            /\ UNCHANGED << texit, tsentinel >>
    /\ UNCHANGED << cvars, built, dfail,
                    cpc, exc, exitcode, a_kind, started, lib, sent,
                    tsent, idx, joined, tjoined, ivars, closes, q,
                    wvars, tarch, avars, hvars >>

\* The same with the entry put in front of the stream.
TarWrite_Front ==
    /\ tpc = "write"
    /\ \E s \in StatusOutcomes :
        IF s = 0
        THEN /\ tpc' = "get"
             /\ stream' = << tjob >> \o stream
             /\ tjob' = 0
             /\ UNCHANGED << texit, faults >>
        ELSE /\ tpc' = "exited"
             /\ texit' = s
             /\ tjob' = 0
             /\ faults' = faults + 1
             /\ stream' = stream
    /\ UNCHANGED << cvars, built, dfail,
                    cpc, exc, exitcode, a_kind, started, lib, sent,
                    tsent, idx, joined, tjoined, interrupts, closes,
                    q, tq, wvars, tsentinel, tgot, tarch, tar_state, files,
                    hvars >>

\* a.write(name, value): an error of the archiver ends the process with a
\* failure status, the stream left as it is.
TarWrite ==
    /\ tpc = "write"
    /\ \E s \in StatusOutcomes :
        IF s = 0
        THEN /\ tpc' = "get"
             /\ stream' = Append(stream, tjob)
             /\ tjob' = 0
             /\ UNCHANGED << texit, faults >>
        ELSE /\ tpc' = "exited"
             /\ texit' = s
             /\ tjob' = 0
             /\ faults' = faults + 1
             /\ stream' = stream
    /\ UNCHANGED << cvars, built, dfail,
                    cpc, exc, exitcode, a_kind, started, lib, sent,
                    tsent, idx, joined, tjoined, interrupts, closes,
                    q, tq, wvars, tsentinel, tgot, tarch, tar_state, files,
                    hvars >>

\* except KeyboardInterrupt: pass, then a.close() after the try statement;
\* a is unbound when the interrupt came inside archiver().
TarInterrupt ==
    /\ tpc \in {"init", "get", "write"}
    /\ interrupts + faults < MaxFaults
    /\ faults' = faults + 1
    /\ interrupts' = interrupts
    /\ tpc' = "exited"
    /\ IF tpc = "init"
       THEN texit' = 1 /\ tar_state' = tar_state
       ELSE texit' = 0 /\ tar_state' = "closed"
    /\ UNCHANGED << cvars, built, dfail,
                    cpc, exc, exitcode, a_kind, started, lib, sent,
                    tsent, idx, joined, tjoined, closes, q, tq,
                    wvars, tjob, tsentinel, tgot, tarch, stream, files,
                    hvars >>

----------------------------------------------------------------------------
Next ==
    \/ CtlOpenQueues
    \/ CtlStartWorker
    \/ CtlConstruct
    \/ CtlRestoreUnbound
    \/ CtlEnumLib
    \/ CtlEnumDone
    \/ CtlPutSentinel
    \/ CtlJoin
    \/ CtlInterruptDrain
    \/ CtlHandlerJoin
    \/ CtlQueueClose
    \/ CtlTarPut
    \/ CtlTarJoin
    \/ CtlInterruptTar
    \/ CtlHandlerTarJoin
    \/ CtlClose
    \/ CtlInterrupt
    \/ \E i \in Workers : WorkerConstruct(i)
    \/ \E i \in Workers : WorkerGet(i)
    \/ \E i \in Workers : WorkerTransfer(i)
    \/ \E i \in Workers : WorkerInterrupt(i)
    \/ TarOpen
    \/ TarGet
    \/ TarWrite
    \/ TarInterrupt

Spec == Init /\ [][Next]_vars

----------------------------------------------------------------------------
\* Client.wait(id, timeout, poll) of qizx/qizx.py, on its own.  Time is
\* counted in whole seconds, the progress of the task in units of 1 / Scale.
Scale == 2
ProgressValues == 0 .. (2 * Scale - 1)
Timeouts == {None} \cup {Seconds(t) : t \in -1 .. MaxTimeout}

\* The truth value Python gives the argument: None and 0 are false.
Truthy(t) == ~t.none /\ t.secs # 0

\* No pipeline is running.
PipelineIdle ==
    /\ direction = "dump"
    /\ jobs = 1
    /\ tar = FALSE
    /\ nlibs = 1
    /\ Unstarted

\* A call of Client.wait is about to run.
WaitInit ==
    /\ PipelineIdle
    /\ BatchIdle
    /\ PropIdle
    /\ BackupIdle
    /\ wait_pc = "start"
    /\ timeout \in Timeouts
    /\ poll \in 1 .. MaxPoll
    /\ clock = 0
    /\ start = 0
    /\ complete = 0
    /\ polls = 0
    /\ result = "none"

\* Time passes while Client.wait runs.
Tick ==
    /\ wait_pc \in {"start", "progress", "loop"}
    /\ clock < MaxClock
    /\ clock' = clock + 1
    /\ UNCHANGED << pvars, bvars, fvars, xvars, wait_pc, timeout, poll, start, complete, polls,
                    result >>

\* start = time.time()
WaitStart ==
    /\ wait_pc = "start"
    /\ start' = clock
    /\ wait_pc' = "progress"
    /\ UNCHANGED << pvars, bvars, fvars, xvars, timeout, poll, clock, complete, polls, result >>

\* task, complete = self.progress(id): the server's answer is any number,
\* or one that makes progress raise UnexpectedResponseError.
WaitProgress ==
    /\ wait_pc = "progress"
    /\ \/ \E c \in ProgressValues :
            /\ complete' = c
            /\ polls' = polls + 1
            /\ wait_pc' = "loop"
            /\ result' = result
       \/ /\ wait_pc' = "done"
          /\ result' = "raised"
          /\ UNCHANGED << complete, polls >>
    /\ UNCHANGED << pvars, bvars, fvars, xvars, timeout, poll, clock, start >>

\* The same with the test `timeout is not None` for the truth value.
WaitLoop_NotNone ==
    /\ wait_pc = "loop"
    /\ IF complete < Scale
       THEN IF ~timeout.none /\ clock - start > timeout.secs
            THEN wait_pc' = "done" /\ result' = "False"
            ELSE wait_pc' = "sleep" /\ result' = result
       ELSE wait_pc' = "done" /\ result' = "True"
    /\ UNCHANGED << pvars, bvars, fvars, xvars, timeout, poll, clock, start, complete, polls >>

\* while complete < 1: if timeout and time.time() - start > timeout:
\* return False; after the loop, return True.
WaitLoop ==
    /\ wait_pc = "loop"
    /\ IF complete < Scale
       THEN IF Truthy(timeout) /\ clock - start > timeout.secs
            THEN wait_pc' = "done" /\ result' = "False"
            ELSE wait_pc' = "sleep" /\ result' = result
       ELSE wait_pc' = "done" /\ result' = "True"
    /\ UNCHANGED << pvars, bvars, fvars, xvars, timeout, poll, clock, start, complete, polls >>

\* time.sleep(poll): at least poll seconds pass.
WaitSleep ==
    /\ wait_pc = "sleep"
    /\ \E t \in (clock + poll) .. MaxClock :
        clock' = t
    /\ wait_pc' = "progress"
    /\ UNCHANGED << pvars, bvars, fvars, xvars, timeout, poll, start, complete, polls, result >>

WaitNext ==
    \/ Tick
    \/ WaitStart
    \/ WaitProgress
    \/ WaitLoop
    \/ WaitSleep

WaitSpec == WaitInit /\ [][WaitNext]_vars

----------------------------------------------------------------------------
\* The document batch of the Client: batch, flush, put (qizx/qizx.py).

Storables == 1 .. MaxBatch

\* How a put ends: it returns, or raises out of the request
\* (raise_for_status, a text/x-qizx-error answer) or out of the parsing of
\* the answer.
PutOutcomes ==
    {"ok", "HTTPError", "QizxError", "UnexpectedResponseError",
     "QizxImportError"}

BatchInit ==
    /\ PipelineIdle
    /\ WaitIdle
    /\ BatchIdle
    /\ PropIdle
    /\ BackupIdle

\* self._storables.append(storable)
Batch ==
    /\ Len(storables) < MaxBatch
    /\ \E x \in Storables :
        storables' = Append(storables, x)
    /\ last' = [op |-> "batch", out |-> "ok"]
    /\ UNCHANGED << pvars, kvars, fvars, xvars, puts >>

\* The same without the test of the length.
Flush_NoTest ==
    /\ Len(puts) < MaxRequests
    /\ \E out \in PutOutcomes :
        /\ puts' = Append(puts, storables)
        /\ storables' = IF out = "ok" THEN << >> ELSE storables
        /\ last' = [op |-> "flush", out |-> out]
    /\ UNCHANGED << pvars, kvars, fvars, xvars >>

\* The same with the batch emptied in a finally clause.
Flush_Finally ==
    /\ Len(puts) < MaxRequests
    /\ IF Len(storables) > 0
       THEN \E out \in PutOutcomes :
            /\ puts' = Append(puts, storables)
            /\ storables' = << >>
            /\ last' = [op |-> "flush", out |-> out]
       ELSE /\ last' = [op |-> "flush", out |-> "ok"]
            /\ UNCHANGED << storables, puts >>
    /\ UNCHANGED << pvars, kvars, fvars, xvars >>

\* if len(self._storables) > 0: self.put(self._storables, xml, library);
\* self._storables = [].  A put that raises leaves flush before the
\* assignment.
Flush ==
    /\ Len(puts) < MaxRequests
    /\ IF Len(storables) > 0
       THEN \E out \in PutOutcomes :
            /\ puts' = Append(puts, storables)
            /\ storables' = IF out = "ok" THEN << >> ELSE storables
            /\ last' = [op |-> "flush", out |-> out]
       ELSE /\ last' = [op |-> "flush", out |-> "ok"]
            /\ UNCHANGED << storables, puts >>
    /\ UNCHANGED << pvars, kvars, fvars, xvars >>

BatchNext ==
    \/ Batch
    \/ Flush

BatchSpec == BatchInit /\ [][BatchNext]_vars

----------------------------------------------------------------------------
\* The property batch of the Client: batchprop, flushprops (qizx/qizx.py).
\* A property is known by the number of the batchprop call that brought it
\* and by its type; "bogus" stands for a type flushprops asserts against.

Paths == {"/a", "/b"}
PropTypes == {"string", "bogus"}

\* How the request of flushprops ends.
EvalOutcomes ==
    {"ok", "HTTPError", "QizxError", "UnexpectedResponseError",
     "TransactionError"}

\* The properties in the batch.
Batched ==
    UNION {{props[p][k] : k \in 1 .. Len(props[p])} : p \in DOMAIN props}

PropInit ==
    /\ PipelineIdle
    /\ WaitIdle
    /\ BatchIdle
    /\ PropIdle
    /\ BackupIdle

\* if path not in self._props: self._props[path] = [];
\* self._props[path].extend(properties), for one property.
BatchProp ==
    /\ nprops < MaxProps
    /\ nprops' = nprops + 1
    /\ \E path \in Paths, type \in PropTypes :
        LET property == [id |-> nprops + 1, type |-> type]
        IN  props' = IF path \in DOMAIN props
                     THEN [props EXCEPT ![path] = Append(@, property)]
                     ELSE props @@ (path :> << property >>)
    /\ plast' = [op |-> "batchprop", out |-> "ok"]
    /\ UNCHANGED << pvars, kvars, bvars, xvars, sentprops >>

\* The same with the batch emptied after the answer was parsed.
FlushProps_ClearLast ==
    IF \E property \in Batched : property.type = "bogus"
    THEN /\ plast' = [op |-> "flushprops", out |-> "AssertionError"]
         /\ UNCHANGED << pvars, kvars, bvars, xvars, props, sentprops,
                         nprops >>
    ELSE /\ \E out \in EvalOutcomes :
             /\ plast' = [op |-> "flushprops", out |-> out]
             /\ props' = IF out = "ok" THEN << >> ELSE props
         /\ sentprops' = sentprops \cup {property.id : property \in Batched}
         /\ UNCHANGED << pvars, kvars, bvars, xvars, nprops >>

\* flushprops: the query is built from the batch (the assert on the type
\* raises before anything else is done), self._props = {}, then the request
\* is sent and its answer parsed.
FlushProps ==
    IF \E property \in Batched : property.type = "bogus"
    THEN /\ plast' = [op |-> "flushprops", out |-> "AssertionError"]
         /\ UNCHANGED << pvars, kvars, bvars, xvars, props, sentprops,
                         nprops >>
    ELSE /\ \E out \in EvalOutcomes :
             plast' = [op |-> "flushprops", out |-> out]
         /\ props' = << >>
         /\ sentprops' = sentprops \cup {property.id : property \in Batched}
         /\ UNCHANGED << pvars, kvars, bvars, xvars, nprops >>

PropNext ==
    \/ BatchProp
    \/ FlushProps

PropSpec == PropInit /\ [][PropNext]_vars

----------------------------------------------------------------------------
\* The CLI command backup (qizx/qizx.py, main.backup), run by several
\* clients against one server.

Clients == 1 .. MaxClients

BackupInit ==
    /\ PipelineIdle
    /\ WaitIdle
    /\ BatchIdle
    /\ PropIdle
    /\ xpc = [c \in Clients |-> "begin"]
    /\ exclusive \in [Clients -> BOOLEAN]
    /\ running = {}
    /\ raced = {}

\* if args.exclusive: for t in client.listtasks(): if t["TaskName"] ==
\* "backup": raise QizxError("backup already running").  The answer of
\* listtasks is the server's tasks at the time of the request.
BackupCheck(c) ==
    /\ xpc[c] = "begin"
    /\ xpc' = [xpc EXCEPT ![c] =
                  IF exclusive[c] /\ running # {} THEN "aborted" ELSE "start"]
    /\ UNCHANGED << pvars, kvars, bvars, fvars, exclusive, running, raced >>

\* id = client.backup(args.directory, args.library): the server starts a
\* backup task.
BackupStart(c) ==
    /\ xpc[c] = "start"
    /\ xpc' = [xpc EXCEPT ![c] = "done"]
    /\ running' = running \cup {c}
    /\ raced' = IF running # {} THEN raced \cup {c} ELSE raced
    /\ UNCHANGED << pvars, kvars, bvars, fvars, exclusive >>

\* The server completes a backup task.
BackupFinish(c) ==
    /\ c \in running
    /\ running' = running \ {c}
    /\ UNCHANGED << pvars, kvars, bvars, fvars, xpc, exclusive, raced >>

BackupNext ==
    \/ \E c \in Clients : BackupCheck(c)
    \/ \E c \in Clients : BackupStart(c)
    \/ \E c \in Clients : BackupFinish(c)

BackupSpec == BackupInit /\ [][BackupNext]_vars

----------------------------------------------------------------------------
\* What the claims speak of.

\* The exit statuses of the children a join() of the if / elif chains has
\* returned for.
ChildStatuses ==
    {wexit[i] : i \in joined} \cup (IF tjoined THEN {texit} ELSE {})

\* The most severe status of a set under the priority 100 > 2 > 1 > 0.
MaxSeverity(S) ==
    IF 100 \in S THEN 100 ELSE IF 2 \in S THEN 2 ELSE IF 1 \in S THEN 1 ELSE 0

\* The worker loop has been left and the controller's client exists.
SpawnDone ==
    \/ cpc \in {"enum", "sentinels", "join", "hjoin", "qclose", "tartry",
                "tarjoin", "htarjoin", "close"}
    \/ cpc = "ended" /\ built

\* The processes that hold an open bulk.Tar object.
TarHolders ==
    (IF tpc \in {"get", "write"} /\ tarch = "Tar" THEN {"writer"} ELSE {})
    \cup {i \in Workers : warch[i] = "Tar" /\ wpc[i] \in {"get", "fetch",
                                                          "write"}}
    \cup (IF built /\ a_kind = "Tar" /\ cpc # "ended"
          THEN {"controller"} ELSE {})

\* The processes inside a write(name, payload) on the tar stream.
TarWriting ==
    (IF tpc = "write" THEN {"writer"} ELSE {})
    \cup {i \in Workers : warch[i] = "Tar" /\ wpc[i] = "write"}

\* The jobs still on the job queue.
Queued == {q[k] : k \in 1 .. Len(q)} \ {Sentinel}

----------------------------------------------------------------------------
\* C1: in a run that completes, a run where a worker exits with status 2
\* (main leaves through the TypeError of the status chain) and a run
\* interrupted by KeyboardInterrupt, the archiver's close() has been called
\* exactly once when main has returned or raised.  Stated for the runs in
\* which the controller's archiver exists; a multi-job restore without any
\* failure ends with the NameError of r.
C1_CloseExactlyOnce ==
    (cpc = "ended" /\ built
        /\ exc \in {"none", "TypeError", "KeyboardInterrupt", "NameError"})
    => closes = 1

\* C2: a tar writer that has dequeued the sentinel and exited has closed the
\* tar stream.
C2_WriterClosesOnSentinel ==
    (tpc = "exited" /\ tsentinel) => tar_state = "closed"

\* C3: in a multi-job run without interrupt, main returns, and returns the
\* most severe of the joined children's statuses (100 > 2 > 1 > 0).
C3_MaxSeverityWins ==
    (cpc = "ended" /\ jobs > 1 /\ interrupts = 0
        /\ exc \in {"none", "TypeError"})
    => (exc = "none" /\ exitcode = MaxSeverity(ChildStatuses))

\* C4: when main returns after the controller was interrupted (it set its
\* status to -1), the exit code is -1 whatever the children exited with.
C4_InterruptOverridesAll ==
    (cpc = "ended" /\ exc = "none" /\ interrupts > 0) => exitcode = -1

\* C5: a multi-job run that reached draining and was not interrupted has put
\* one sentinel per started worker on the job queue and, with a tar writer
\* started, one sentinel on the tar queue, when main has ended.
C5_SentinelCounts ==
    (cpc = "ended" /\ jobs > 1 /\ sent > 0 /\ interrupts = 0)
    => (sent = started /\ (tpc # "unstarted" => tsent = 1))

\* C6: the tar writer's sentinel is on the tar queue, or dequeued, only when
\* every worker has exited and has been joined, on the normal and on the
\* interrupted path.
C6_TarSentinelAfterJoins ==
    (tsent > 0 \/ tsentinel)
    => \A i \in Workers :
          /\ wpc[i] \in {"unstarted", "exited"}
          /\ wpc[i] = "exited" => i \in joined

C6_Witness ==
    tsentinel /\ started >= 2 /\ exitcode = -1 /\ tar_state = "open"

\* C7: no job is dequeued twice or handled twice, and when main returns with
\* jobs >= 1 every enumerated job has been handled once and none is left on
\* the job queue.  Stated for the runs that return the status 0.
C7_EveryJobOnce ==
    /\ \A j \in JobIds : taken[j] <= 1 /\ done[j] <= 1
    /\ (cpc = "ended" /\ exc = "none" /\ exitcode = 0 /\ jobs >= 1)
       => (Queued = {} /\ \A j \in 1 .. nlibs : done[j] = 1)

\* C8: in a tar dump with jobs > 1 nobody but the tar writer holds the real
\* tar handle, and at most one write on the tar stream is in progress.
C8_SingleTarWriter ==
    (direction = "dump" /\ tar /\ jobs > 1)
    => (TarHolders \subseteq {"writer"} /\ Cardinality(TarWriting) <= 1)

C8_Witness ==
    /\ direction = "dump" /\ tar /\ jobs > 1
    /\ tpc = "write"
    /\ \E i \in Workers : wpc[i] = "fetch"
    /\ \E i \in Workers : wpc[i] = "get" /\ warch[i] = "TarQueue"

\* C9: when main has ended after a KeyboardInterrupt that came with workers
\* started, the status is -1, every started worker and the tar writer have
\* exited, and the archiver has been closed.
C9_InterruptWaitsForChildren ==
    (cpc = "ended" /\ interrupts > 0 /\ started >= 1)
    => /\ exitcode = -1
       /\ \A i \in Workers : wpc[i] \in {"unstarted", "exited"}
       /\ tpc \in {"unstarted", "exited"}
       /\ closes = 1

\* C10 as stated: with jobs > 1 the workers started are jobs - 1 when a tar
\* writer process was started and jobs otherwise.
C10_Original ==
    (jobs > 1 /\ SpawnDone)
    => started = (IF tpc # "unstarted" THEN jobs - 1 ELSE jobs)

\* C10 amended: with jobs > 1 the workers started are jobs - 1, with or
\* without a tar writer process, in dump and in restore.
C10_WorkersStarted ==
    (jobs > 1 /\ SpawnDone) => started = jobs - 1

C10_Witness ==
    jobs = 3 /\ SpawnDone /\ tpc = "unstarted" /\ started = 2

----------------------------------------------------------------------------
\* The jobs that went onto the job queue so far: still queued, or dequeued
\* by a worker.
EverQueued == Queued \cup {j \in JobIds : jobs # 1 /\ taken[j] > 0}

\* The processes of the pool of a run: range(config.jobs - 1) workers, and
\* the tar writer in a tar dump.
Pool == {i \in Workers : i <= jobs - 1}

PoolStarted ==
    /\ \A i \in Pool : wpc[i] # "unstarted"
    /\ (direction = "dump" /\ tar) => tpc # "unstarted"

\* C11: in a run with a queue, every worker process, and the tar writer of
\* a tar dump, has been started before the first job is put on the job
\* queue: no job was ever queued while a process of the pool is unstarted.
C11_PoolStartedBeforeJobs ==
    (jobs # 1 /\ EverQueued # {}) => PoolStarted

\* A tar dump with two workers and the writer, all started, the first job
\* on the queue and not yet dequeued.
C11_Witness ==
    /\ direction = "dump" /\ tar /\ jobs = MaxJobs
    /\ q = << 1 >>
    /\ \A j \in JobIds : taken[j] = 0
    /\ PoolStarted

\* C12: with config.jobs == 1 the controller starts no worker and no tar
\* writer, puts nothing on a queue (no job, no sentinel), never enters the
\* drain (sentinels, joins); every transfer is begun and completed inside
\* the controller's own step, with the archiver of the command line, and a
\* run that returns has handled every library and closed that archiver.
C12_SingleJobSynchronous ==
    jobs = 1 =>
        /\ started = 0
        /\ \A i \in Workers : wpc[i] = "unstarted"
        /\ tpc = "unstarted"
        /\ q = << >> /\ tq = << >>
        /\ sent = 0 /\ tsent = 0
        /\ joined = {} /\ ~tjoined
        /\ cpc \in {"begin", "enum", "close", "ended"}
        /\ a_kind = ConfigArchiver(tar)
        /\ \A j \in JobIds : done[j] = taken[j] /\ (taken[j] > 0 <=> j < lib)
        /\ (cpc = "ended" /\ exc = "none") =>
               /\ closes = 1
               /\ \A j \in 1 .. nlibs : done[j] = 1

\* A tar dump of MaxLibs libraries with config.jobs == 1 has returned: the
\* entries are in the stream and the stream is closed.
C12_Witness ==
    /\ jobs = 1 /\ direction = "dump" /\ tar /\ nlibs = MaxLibs
    /\ cpc = "ended" /\ exc = "none"
    /\ Len(stream) = MaxLibs
    /\ tar_state = "closed"
    /\ closes = 1

\* The children that are running: started and not exited.
LiveWorkers == {i \in Workers : wpc[i] \notin {"unstarted", "exited"}}

TarLive == tpc \notin {"unstarted", "exited"}

\* The number of None on a queue.
RECURSIVE Sentinels(_)
Sentinels(s) ==
    IF s = << >> THEN 0
    ELSE (IF Head(s) = Sentinel THEN 1 ELSE 0) + Sentinels(Tail(s))

\* C13: when the enumeration of a library fails, of the first library or of
\* a later one, main is left at once and at that moment no job has been put
\* on the job queue.  Stated for the runs with a pool, config.jobs > 1.
C13_NoJobBeforeEnumerationFailure ==
    (cpc = "ended" /\ exc = "EnumerationFailure" /\ jobs > 1) =>
        EverQueued = {}

\* C14: when the construction of the controller's bulk.Dump / bulk.Restore
\* fails, no library has been enumerated, no job is queued, and no started
\* worker or tar writer is left running without a sentinel on its queue.
\* Stated for config.jobs >= 1.
C14_ClientFailureLeavesNoChild ==
    (cpc = "ended" /\ exc = "ClientFailure" /\ jobs >= 1) =>
        /\ lib = 1
        /\ EverQueued = {}
        /\ Cardinality(LiveWorkers) <= Sentinels(q)
        /\ TarLive => Sentinels(tq) >= 1

\* Worker k stops in this step.
Stops(k) == wpc[k] \notin {"unstarted", "exited"} /\ wpc'[k] = "exited"

C16_WorkerInterruptIsLocal ==
    [][\A i \in Workers :
          /\ (wcause[i] = "none" /\ wcause'[i] = "interrupt") =>
                 /\ wpc'[i] = "exited" /\ wexit'[i] = 0
                 /\ \A k \in Workers \ {i} :
                        /\ wpc'[k] = wpc[k]
                        /\ wjob'[k] = wjob[k]
                        /\ wexit'[k] = wexit[k]
                 /\ tvars' = tvars
                 /\ << cpc, exc, exitcode, idx, joined >>' =
                        << cpc, exc, exitcode, idx, joined >>
                 /\ q' = q /\ tq' = tq
          /\ wcause[i] = "interrupt" =>
                 wpc'[i] = "exited" /\ wexit'[i] = 0]_vars

\* Worker 1 was interrupted while it held a job; afterwards its sibling ran
\* to its sentinel, the tar writer to its own, and main returned.
C16_Witness ==
    /\ wpc[1] = "exited" /\ wcause[1] = "interrupt" /\ wexit[1] = 0
    /\ taken[1] = 1 /\ done[1] = 0
    /\ wpc[2] = "exited" /\ wcause[2] = "sentinel"
    /\ tpc = "exited" /\ tsentinel
    /\ cpc = "ended" /\ exc = "none"

\* The entries of the archive a dump has produced.
Entries == IF tar THEN {stream[k] : k \in 1 .. Len(stream)} ELSE files

\* A dump that met no interrupt and no failure and has returned.
CleanDump ==
    /\ direction = "dump" /\ jobs >= 1
    /\ cpc = "ended" /\ exc = "none"
    /\ interrupts = 0 /\ faults = 0 /\ ~dfail

\* C17: a dump with config.jobs == 1 and a dump with config.jobs > 1 of the
\* same libraries with the same kind of archiver end with the same archive:
\* one entry per job, each exactly once, and the archive finalized (the tar
\* stream closed).  Stated on the runs without interrupt or failure, as the
\* same result for every config.jobs >= 1.
C17_SameArchiveInBothModes ==
    CleanDump =>
        /\ Entries = 1 .. nlibs
        /\ tar => Len(stream) = nlibs
        /\ tar => tar_state = "closed"

\* C18: a restore with a pool runs the protocol of the dump: unless an
\* interrupt, an enumeration failure or a client failure ends it, main
\* returns (it does not raise) after one None was put for every started
\* uploader, every uploader was joined and the archiver was closed once.
C18_RestoreFollowsDump ==
    (direction = "restore" /\ jobs > 1 /\ cpc = "ended" /\ interrupts = 0
        /\ exc \notin {"EnumerationFailure", "ClientFailure", "TypeError"}) =>
        /\ exc = "none"
        /\ sent = started
        /\ joined = 1 .. started
        /\ closes = 1

\* C19 as stated: in the restore driver the handle is left unbound in the
\* branch of config.jobs == 1, so the NameError is met with jobs == 1 only.
C19_Original ==
    (direction = "restore" /\ exc = "NameError") => jobs = 1

\* C19, amended: in the restore driver the NameError of the unbound handle
\* is met in the branch of config.jobs # 1 only, and there always: that
\* branch never enumerates, queues or closes anything; the branch of
\* config.jobs == 1 has the handle bound and goes through the libraries.
C19_MultiJobBranchUnbound ==
    direction = "restore" =>
        /\ exc = "NameError" => jobs # 1
        /\ jobs # 1 =>
               /\ lib = 1 /\ q = << >> /\ closes = 0
               /\ (cpc = "ended" /\ interrupts = 0 /\ exc # "ClientFailure")
                      => exc = "NameError"
        /\ (jobs = 1 /\ cpc = "ended" /\ interrupts = 0
               /\ exc \notin {"ClientFailure", "EnumerationFailure"}) =>
               /\ exc = "none"
               /\ lib = nlibs + 1

\* A restore with MaxJobs jobs has started its uploaders and has been ended
\* by the NameError.
C19_Witness ==
    /\ direction = "restore" /\ jobs = MaxJobs
    /\ started = MaxJobs - 1
    /\ built
    /\ cpc = "ended" /\ exc = "NameError"

\* C20: Client.wait returns True only after a poll of progress reported a
\* value >= 1; it returns False only when the timeout is a number other
\* than 0, more than that many seconds have passed since start and the last
\* poll reported a value < 1; it has polled at least once whenever it
\* returns; with the timeout None or 0 it never returns False, and returns
\* only with a poll that reported completion.
C20_WaitContract ==
    /\ result = "True" => (polls >= 1 /\ complete >= Scale)
    /\ result = "False" =>
           /\ Truthy(timeout)
           /\ clock - start > timeout.secs
           /\ polls >= 1
           /\ complete < Scale
    /\ ~Truthy(timeout) =>
           /\ result # "False"
           /\ (wait_pc = "done" /\ result # "raised") =>
                  (result = "True" /\ complete >= Scale)
    /\ wait_pc \in {"loop", "sleep"} => polls >= 1

\* A call with a timeout of MaxTimeout seconds has polled twice and timed
\* out.
C20_Witness ==
    /\ timeout = Seconds(MaxTimeout)
    /\ result = "False"
    /\ polls = 2
    /\ clock - start > MaxTimeout

\* C21: the tar writer writes the requests in the order in which it
\* dequeued them: the entries of the stream are the dequeued requests, in
\* that order, none left out, repeated or moved, up to the one request the
\* writer holds (or held when an error or an interrupt ended it); when the
\* writer has dequeued None everything it dequeued is in the stream.
C21_WriterFifo ==
    tpc # "unstarted" =>
        /\ Len(stream) <= Len(tgot)
        /\ Len(tgot) - Len(stream) <= 1
        /\ stream = SubSeq(tgot, 1, Len(stream))
        /\ tpc = "write" => tgot = Append(stream, tjob)
        /\ tpc = "get" => stream = tgot
        /\ (tpc = "exited" /\ tsentinel) => stream = tgot

\* The writer dequeued the request of job 2 before that of job 1, wrote
\* both and dequeued None.
C21_Witness ==
    /\ tpc = "exited" /\ tsentinel
    /\ tgot = << 2, 1 >>
    /\ stream = << 2, 1 >>

\* The write requests waiting on the tar queue.
Pending == {k \in 1 .. Len(tq) : tq[k] # Sentinel}

\* C22 as stated: the tar queue has a capacity that holds the workers back:
\* while the writer has dequeued nothing, the requests of all the jobs of
\* a dump of several libraries cannot be waiting on the queue together.
C22_Original ==
    (direction = "dump" /\ tar /\ jobs > 1 /\ nlibs > 1 /\ tgot = << >>) =>
        Cardinality(Pending) < nlibs

\* C22, amended: the tar queue has no capacity: a worker that is about to
\* put a write request can always put it, however many requests wait and
\* whatever the writer does.
C22_PutNeverBlocks ==
    \A i \in Workers :
        (wpc[i] = "fetch" /\ warch[i] = "TarQueue") =>
            ENABLED TarQueuePut(wjob[i])

\* A worker is about to put a request while another request waits on the
\* queue and the writer has dequeued nothing.
C22_Witness ==
    /\ tgot = << >>
    /\ Cardinality(Pending) >= 1
    /\ \E i \in Workers : wpc[i] = "fetch" /\ warch[i] = "TarQueue"

\* C23: a call of batch appends the storable to the batch and issues no
\* request; a flush of a batch that is not empty issues one put that carries
\* the whole batch in its order, and leaves the batch empty when it returns;
\* a flush of the empty batch issues no request and changes no batch.
C23_BatchAndFlush ==
    [][/\ last'.op = "batch" =>
              /\ puts' = puts
              /\ Len(storables') = Len(storables) + 1
              /\ SubSeq(storables', 1, Len(storables)) = storables
       /\ (last'.op = "flush" /\ storables # << >>) =>
              /\ puts' = Append(puts, storables)
              /\ last'.out = "ok" => storables' = << >>
       /\ (last'.op = "flush" /\ storables = << >>) =>
              /\ puts' = puts
              /\ storables' = storables
              /\ last'.out = "ok"]_vars

\* Two storables were batched and flushed in one put, and a flush of the
\* then empty batch has returned since.
C23_Witness ==
    /\ puts = << << 2, 1 >> >>
    /\ storables = << >>
    /\ last = [op |-> "flush", out |-> "ok"]

\* C28: right after a flush whose put raised, the batch is what that put
\* carried, unchanged, so that the next flush carries the same storables
\* again; the batch is found emptied by a flush only after a put that
\* returned.
C28_FailedFlushKeepsBatch ==
    /\ (last.op = "flush" /\ last.out # "ok") =>
           /\ storables # << >>
           /\ puts # << >>
           /\ puts[Len(puts)] = storables
    /\ (last.op = "flush" /\ storables = << >>) => last.out = "ok"

\* A put of two storables has raised QizxImportError: the batch still holds
\* the two, in their order.
C28_Witness ==
    /\ puts = << << 1, 2 >> >>
    /\ storables = << 1, 2 >>
    /\ last = [op |-> "flush", out |-> "QizxImportError"]

\* C29: once flushprops has sent its request the property batch is empty,
\* whether the call returned or raised; and no property waiting in the
\* batch was carried by an earlier request, so no later flushprops sends
\* again what a failed one has sent.
C29_FlushPropsEmptiesFirst ==
    /\ (plast.op = "flushprops" /\ plast.out # "AssertionError") =>
           props = << >>
    /\ {property.id : property \in Batched} \cap sentprops = {}

\* A flushprops that carried two properties has raised TransactionError.
C29_Witness ==
    /\ plast = [op |-> "flushprops", out |-> "TransactionError"]
    /\ sentprops = {1, 2}
    /\ props = << >>

\* C30: a client that runs backup with --exclusive never issues its backup
\* request while a backup is running on the server: of two such clients run
\* together at most one starts a backup.
C30_ExclusiveBackup ==
    (\A c \in Clients : exclusive[c]) => raced = {}

\* C24: for every config.jobs, when main of a dump returns, every process
\* it started was sent a None and joined, and no job it queued is left on
\* the job queue.  Stated for the runs without interrupt and failure.
C24_EveryJobsValueDrains ==
    (direction = "dump" /\ cpc = "ended" /\ exc = "none"
        /\ interrupts = 0 /\ faults = 0) =>
        /\ sent = started /\ joined = 1 .. started
        /\ tpc # "unstarted" => (tsent = 1 /\ tjoined)
        /\ Queued = {}

\* C25: in a tar dump with a pool the None of the tar writer is the last
\* item ever put on the tar queue: once it is put no worker is running that
\* could put a write request, nothing stands behind it on the queue, and a
\* writer that has dequeued it has written every request ever put.
C25_TarSentinelLast ==
    (direction = "dump" /\ tar /\ jobs > 1) =>
        /\ tsent <= 1
        /\ tsent = 1 => LiveWorkers = {}
        /\ \A k \in 1 .. Len(tq) : tq[k] = Sentinel => k = Len(tq)
        /\ tsentinel =>
               /\ tq = << >>
               /\ stream = tgot

\* Two workers have put a request each, the controller has joined both and
\* put the None behind the two requests; the writer has written none yet.
C25_Witness ==
    /\ direction = "dump" /\ tar /\ jobs = MaxJobs
    /\ Len(tq) = 3 /\ tq[3] = Sentinel
    /\ stream = << >>
    /\ interrupts = 0

\* C26: main returns exit code 0 only when every enumerated job was
\* transferred successfully, with config.jobs == 1 as with a pool: no
\* transfer failed, and every job was taken up and completed (in a dump:
\* its entry is in the archive).
C26_ZeroMeansAllTransferred ==
    (jobs >= 1 /\ cpc = "ended" /\ exc = "none" /\ exitcode = 0) =>
        /\ ~dfail
        /\ \A j \in 1 .. nlibs :
               /\ done[j] = 1
               /\ direction = "dump" => j \in Entries

\* The controller, not interrupted, has left the loop that puts the None
\* for the workers.
Draining ==
    /\ interrupts = 0
    /\ \/ cpc \in {"join", "qclose", "tartry", "tarjoin", "close"}
       \/ cpc = "ended" /\ jobs > 1 /\ exc \in {"none", "TypeError"}

\* C27: once the controller, not interrupted, has put its None for every
\* worker, the None left on the job queue are at least as many as the
\* workers still alive,
\* however the other workers ended: each worker takes at most one, and a
\* worker that failed at startup, was interrupted or died has taken none.
\* So a worker waiting in get never finds the queue empty, and the worker
\* the controller is joining can always move or has exited.
C27_SentinelsCoverLiveWorkers ==
    Draining =>
        /\ Sentinels(q) >= Cardinality(LiveWorkers)
        /\ Sentinels(q) =
               started - Cardinality({i \in Workers : wcause[i] = "sentinel"})
        /\ \A i \in LiveWorkers : wpc[i] = "get" => q # << >>
        /\ \A i \in LiveWorkers :
               ENABLED (WorkerConstruct(i) \/ WorkerGet(i) \/ WorkerTransfer(i))

\* The controller waits in the join loop; one worker was interrupted before
\* it took a None, its sibling is alive, and both None are on the queue.
C27_Witness ==
    /\ cpc = "join"
    /\ wcause[1] = "interrupt"
    /\ wpc[2] = "get"
    /\ Sentinels(q) = 2

============================================================================
